---------------------------- MODULE Spec2Model ----------------------------
(***************************************************************************)
(* Model of the diffusers server of rhizome-lab/lotus:                     *)
(*   src/plugins/diffusers/server/main.py        (HTTP routes, pipeline    *)
(*                                                cache, lifespan)         *)
(*   src/plugins/diffusers/server/controlnet.py  (ControlNetManager)       *)
(*                                                                         *)
(* Strings are sequences of one-character strings, so that lower(),        *)
(* substring tests and key concatenation are computed, not assumed.        *)
(* Objects built by the external library are records [cls, obj] where obj  *)
(* is a fresh identity taken from the allocation counter nextObj.          *)
(***************************************************************************)
EXTENDS Naturals, Sequences, FiniteSets

VARIABLES
    pipeline_cache,   \* main.py:28      model_id -> pipeline
    models,           \* controlnet.py:24 control_type -> ControlNetModel
    pipelines,        \* controlnet.py:25 pipeline_key -> ControlNet pipeline
    preprocessors,    \* controlnet.py:26 control_type -> detector
    running,          \* TRUE between startup and the lifespan shutdown step
    nextObj,          \* identity of the next object the library constructs
    handled,          \* number of requests answered so far
    last,             \* the request answered last and its response
    loads,            \* history: successful loads per cache and key
    failed,           \* history: keys whose load raised, per cache
    lookups,          \* history: generate calls that reached the pipeline lookup
    inflight          \* threads inside text_to_image (SpecConc only)

vars == <<pipeline_cache, models, pipelines, preprocessors, running, nextObj,
          handled, last, loads, failed, lookups, inflight>>

caches == <<pipeline_cache, models, pipelines, preprocessors>>

---------------------------------------------------------------------------
(* Bounds of the model *)

MaxRequests == 2

MaxParts == 2

MaxThreads == 2

MaxFamilyCalls == 1

MaxKeyCalls == 2

---------------------------------------------------------------------------
(* Strings *)

UpperChars == <<"A","B","C","D","E","F","G","H","I","J","K","L","M",
                "N","O","P","Q","R","S","T","U","V","W","X","Y","Z">>

LowerChars == <<"a","b","c","d","e","f","g","h","i","j","k","l","m",
                "n","o","p","q","r","s","t","u","v","w","x","y","z">>

UpperSet == {UpperChars[i] : i \in DOMAIN UpperChars}

\* str.lower() on one character
LowerChar(ch) ==
    IF ch \in UpperSet
    THEN LowerChars[CHOOSE i \in DOMAIN UpperChars : UpperChars[i] = ch]
    ELSE ch

\* str.lower()
Lower(s) == [i \in DOMAIN s |-> LowerChar(s[i])]

\* the Python test  sub in s  on strings
Contains(s, sub) ==
    \E i \in 0..(Len(s) - Len(sub)) : SubSeq(s, i + 1, i + Len(sub)) = sub

RECURSIVE Join(_)
\* concatenation of a sequence of strings
Join(parts) == IF parts = <<>> THEN <<>> ELSE Head(parts) \o Join(Tail(parts))

\* every string made of 1..n of the given fragments
Composed(frags, n) ==
    UNION {{Join(p) : p \in [1..k -> frags]} : k \in 1..n}

flux == <<"f","l","u","x">>
sd3 == <<"s","d","3">>
stable_diffusion_3 ==
    <<"s","t","a","b","l","e","-","d","i","f","f","u","s","i","o","n","-","3">>
xl == <<"x","l">>

canny == <<"c","a","n","n","y">>
depth == <<"d","e","p","t","h">>
hed == <<"h","e","d">>
openpose == <<"o","p","e","n","p","o","s","e">>
scribble == <<"s","c","r","i","b","b","l","e">>

\* the Literal ControlType
ControlType == {canny, depth, hed, openpose, scribble}

None == [cls |-> "NoneType", obj |-> 0]

NoException == [cls |-> "none", origin |-> "none"]

Raise(cls, origin) == [cls |-> cls, origin |-> origin]

\* isinstance(error, ValueError): binascii.Error derives from ValueError
IsValueError(exc) == exc.cls \in {"ValueError", "binascii.Error"}

Put(f, k, v) == [x \in DOMAIN f \cup {k} |-> IF x = k THEN v ELSE f[x]]

Count(f, k) == IF k \in DOMAIN f THEN f[k] ELSE 0

Bump(f, k) == Put(f, k, Count(f, k) + 1)


---------------------------------------------------------------------------
(* Inputs of the requests and outcomes of the external library *)

\* request.image / request.control_image, by what base64_to_image does with it
Base64Inputs == {"png", "bad_padding", "not_image"}

\* an external constructor or from_pretrained call returns or raises
LoadOutcomes == {"ok", "raise"}

\* a pipeline call returns an image, raises, or returns something else
RunOutcomes == {"image", "raise", "not_image"}

\* a detector call returns an image or raises
DetectOutcomes == {"image", "raise"}

Canny_capital == <<"C","a","n","n","y">>

\* control types a client sends that are not in ControlType
UnknownTypes == {<<>>, Canny_capital}

RequestTypes == ControlType \cup UnknownTypes

sd == <<"s","d">>

sdXL == <<"s","d","X","L">>

sd_hed == <<"s","d",":","h","e","d">>

\* model identifiers of /text-to-image requests
TextModelIds == {flux, sdXL, sd}

\* base models of /controlnet/generate requests
BaseModelIds == {sd, sd_hed}

---------------------------------------------------------------------------
(* main.py *)

\* pipeline_family with the SDXL test moved before the SD3 test
pipeline_family_xl_first(model_id) ==
    IF Contains(Lower(model_id), flux) THEN "FluxPipeline"
    ELSE IF Contains(Lower(model_id), xl) THEN "StableDiffusionXLPipeline"
    ELSE IF Contains(Lower(model_id), sd3)
            \/ Contains(Lower(model_id), stable_diffusion_3)
         THEN "StableDiffusion3Pipeline"
    ELSE "StableDiffusionPipeline"

\* the class the if/elif chain of load_pipeline picks
pipeline_family(model_id) ==
    IF Contains(Lower(model_id), flux) THEN "FluxPipeline"
    ELSE IF Contains(Lower(model_id), sd3)
            \/ Contains(Lower(model_id), stable_diffusion_3)
         THEN "StableDiffusion3Pipeline"
    ELSE IF Contains(Lower(model_id), xl) THEN "StableDiffusionXLPipeline"
    ELSE "StableDiffusionPipeline"

\* load_pipeline without the cache test of line 76
load_pipeline_reload(model_id, ext) ==
    IF ext = "raise"
    THEN [exc |-> Raise("Exception", "from_pretrained"), ret |-> None,
          cache |-> pipeline_cache, invoked |-> TRUE, loaded |-> FALSE]
    ELSE LET pipeline == [cls |-> pipeline_family(model_id),
                          obj |-> nextObj]
         IN  [exc |-> NoException, ret |-> pipeline,
              cache |-> Put(pipeline_cache, model_id, pipeline),
              invoked |-> TRUE, loaded |-> TRUE]

\* load_pipeline storing an entry for the key before from_pretrained returns
load_pipeline_cache_failure(model_id, ext) ==
    IF model_id \in DOMAIN pipeline_cache
    THEN [exc |-> NoException, ret |-> pipeline_cache[model_id],
          cache |-> pipeline_cache, invoked |-> FALSE, loaded |-> FALSE]
    ELSE IF ext = "raise"
    THEN [exc |-> Raise("Exception", "from_pretrained"), ret |-> None,
          cache |-> Put(pipeline_cache, model_id, None),
          invoked |-> TRUE, loaded |-> FALSE]
    ELSE LET pipeline == [cls |-> pipeline_family(model_id),
                          obj |-> nextObj]
         IN  [exc |-> NoException, ret |-> pipeline,
              cache |-> Put(pipeline_cache, model_id, pipeline),
              invoked |-> TRUE, loaded |-> TRUE]

\* line 76: the cache test of load_pipeline
pipeline_cached(model_id) == model_id \in DOMAIN pipeline_cache

\* load_pipeline(model_id); ext is the outcome of from_pretrained
load_pipeline(model_id, ext) ==
    IF pipeline_cached(model_id)
    THEN [exc |-> NoException, ret |-> pipeline_cache[model_id],
          cache |-> pipeline_cache, invoked |-> FALSE, loaded |-> FALSE]
    ELSE IF ext = "raise"
    THEN [exc |-> Raise("Exception", "from_pretrained"), ret |-> None,
          cache |-> pipeline_cache, invoked |-> TRUE, loaded |-> FALSE]
    ELSE LET pipeline == [cls |-> pipeline_family(model_id), obj |-> nextObj]
         IN  [exc |-> NoException, ret |-> pipeline,
              cache |-> Put(pipeline_cache, model_id, pipeline),
              invoked |-> TRUE, loaded |-> TRUE]

\* base64_to_image(b64): b64decode raises binascii.Error, Image.open raises
\* UnidentifiedImageError (an OSError)
base64_to_image(b64) ==
    IF b64 = "bad_padding" THEN Raise("binascii.Error", "b64decode")
    ELSE IF b64 = "not_image" THEN Raise("UnidentifiedImageError", "Image.open")
    ELSE NoException

\* pipeline(**kwargs) and the extraction of the image (both callers)
run_pipeline(run) ==
    IF run = "raise" THEN Raise("Exception", "pipeline")
    ELSE IF run = "not_image" THEN Raise("ValueError", "not_pil")
    ELSE NoException

\* the except clauses of controlnet_preprocess and controlnet_generate
controlnet_status(exc) ==
    IF exc = NoException THEN 200
    ELSE IF IsValueError(exc) THEN 400
    ELSE 500

\* the except clause of text_to_image
text_to_image_status(exc) == IF exc = NoException THEN 200 ELSE 500

---------------------------------------------------------------------------
(* controlnet.py *)

TypeLoaded(control_type) ==
    control_type \in DOMAIN models \cup DOMAIN preprocessors

\* get_available_types listing only the types something was loaded for
get_available_types_loaded ==
    SelectSeq(<<canny, depth, hed, openpose, scribble>>, TypeLoaded)

\* ControlNetManager.get_available_types, the "type" of each entry
get_available_types == <<canny, depth, hed, openpose, scribble>>

\* the class _get_preprocessor constructs
preprocessor_class(control_type) ==
    IF control_type = canny THEN "CannyDetector"
    ELSE IF control_type = depth THEN "MidasDetector"
    ELSE IF control_type = hed THEN "HEDdetector"
    ELSE "OpenposeDetector"

\* ControlNetManager._get_preprocessor; ext is the outcome of the constructor
_get_preprocessor(control_type, ext) ==
    IF control_type \in DOMAIN preprocessors
    THEN [exc |-> NoException, map |-> preprocessors, next |-> nextObj]
    ELSE IF control_type \in {canny, depth, hed, openpose}
    THEN IF ext = "raise"
         THEN [exc |-> Raise("Exception", "detector_load"),
               map |-> preprocessors, next |-> nextObj]
         ELSE [exc |-> NoException,
               map |-> Put(preprocessors, control_type,
                           [cls |-> preprocessor_class(control_type),
                            obj |-> nextObj]),
               next |-> nextObj + 1]
    ELSE IF control_type = scribble
    THEN [exc |-> NoException, map |-> Put(preprocessors, control_type, None),
          next |-> nextObj]
    ELSE [exc |-> Raise("ValueError", "unknown_type"), map |-> preprocessors,
          next |-> nextObj]

\* ControlNetManager.preprocess; det is the outcome of the detector call
preprocess(control_type, ext, det) ==
    IF control_type = scribble
    THEN [exc |-> IF det = "raise" THEN Raise("Exception", "convert")
                  ELSE NoException,
          map |-> preprocessors, next |-> nextObj]
    ELSE LET got == _get_preprocessor(control_type, ext)
         IN  IF got.exc # NoException THEN got
             ELSE [exc |-> IF det = "raise" THEN Raise("Exception", "detector")
                           ELSE NoException,
                   map |-> got.map, next |-> got.next]

\* load_controlnet without the cache test of line 131
load_controlnet_reload(control_type, ext) ==
    IF control_type \notin {canny, depth, hed, openpose, scribble}
    THEN [exc |-> Raise("ValueError", "unknown_type"), ret |-> None,
          map |-> models, invoked |-> FALSE, loaded |-> FALSE]
    ELSE IF ext = "raise"
    THEN [exc |-> Raise("Exception", "controlnet_load"), ret |-> None,
          map |-> models, invoked |-> TRUE, loaded |-> FALSE]
    ELSE LET model == [cls |-> "ControlNetModel", obj |-> nextObj]
         IN  [exc |-> NoException, ret |-> model,
              map |-> Put(models, control_type, model),
              invoked |-> TRUE, loaded |-> TRUE]

\* load_controlnet reading model_map[control_type]: KeyError on a missing key
load_controlnet_keyerror(control_type, ext) ==
    IF control_type \in DOMAIN models
    THEN [exc |-> NoException, ret |-> models[control_type], map |-> models,
          invoked |-> FALSE, loaded |-> FALSE]
    ELSE IF control_type \notin {canny, depth, hed, openpose, scribble}
    THEN [exc |-> Raise("KeyError", "unknown_type"), ret |-> None,
          map |-> models, invoked |-> FALSE, loaded |-> FALSE]
    ELSE IF ext = "raise"
    THEN [exc |-> Raise("Exception", "controlnet_load"), ret |-> None,
          map |-> models, invoked |-> TRUE, loaded |-> FALSE]
    ELSE LET model == [cls |-> "ControlNetModel", obj |-> nextObj]
         IN  [exc |-> NoException, ret |-> model,
              map |-> Put(models, control_type, model),
              invoked |-> TRUE, loaded |-> TRUE]

\* load_controlnet falling back to a default model for a missing key
load_controlnet_any_type(control_type, ext) ==
    IF control_type \in DOMAIN models
    THEN [exc |-> NoException, ret |-> models[control_type], map |-> models,
          invoked |-> FALSE, loaded |-> FALSE]
    ELSE IF ext = "raise"
    THEN [exc |-> Raise("Exception", "controlnet_load"), ret |-> None,
          map |-> models, invoked |-> TRUE, loaded |-> FALSE]
    ELSE LET model == [cls |-> "ControlNetModel", obj |-> nextObj]
         IN  [exc |-> NoException, ret |-> model,
              map |-> Put(models, control_type, model),
              invoked |-> TRUE, loaded |-> TRUE]

\* the keys of model_map in load_controlnet
model_map_keys == {canny, depth, hed, openpose, scribble}

\* ControlNetManager.load_controlnet; ext is the outcome of from_pretrained
load_controlnet(control_type, ext) ==
    IF control_type \in DOMAIN models
    THEN [exc |-> NoException, ret |-> models[control_type], map |-> models,
          invoked |-> FALSE, loaded |-> FALSE]
    ELSE IF control_type \notin model_map_keys
    THEN [exc |-> Raise("ValueError", "unknown_type"), ret |-> None,
          map |-> models, invoked |-> FALSE, loaded |-> FALSE]
    ELSE IF ext = "raise"
    THEN [exc |-> Raise("Exception", "controlnet_load"), ret |-> None,
          map |-> models, invoked |-> TRUE, loaded |-> FALSE]
    ELSE LET model == [cls |-> "ControlNetModel", obj |-> nextObj]
         IN  [exc |-> NoException, ret |-> model,
              map |-> Put(models, control_type, model),
              invoked |-> TRUE, loaded |-> TRUE]

\* line 194: f"{base_model}:{control_type}"
pipeline_key(base_model, control_type) == base_model \o <<":">> \o control_type

\* ControlNetManager.generate; extModel, extPipe and run are the outcomes of
\* ControlNetModel.from_pretrained, of the pipeline's from_pretrained and of
\* the pipeline call
generate(control_type, base_model, extModel, extPipe, run) ==
    LET cn == load_controlnet(control_type, extModel)
        key == pipeline_key(base_model, control_type)
        n == IF cn.loaded THEN nextObj + 1 ELSE nextObj
        base == [exc |-> cn.exc, models |-> cn.map, pipelines |-> pipelines,
                 next |-> n, reached |-> FALSE, key |-> key, ret |-> None,
                 invoked |-> IF cn.invoked THEN {"models"} ELSE {},
                 loaded |-> IF cn.loaded THEN {"models"} ELSE {}]
    IN  IF cn.exc # NoException THEN base
        ELSE IF key \notin DOMAIN pipelines
        THEN IF extPipe = "raise"
             THEN [base EXCEPT !.exc = Raise("Exception", "pipeline_load"),
                               !.reached = TRUE,
                               !.invoked = @ \cup {"pipelines"}]
             ELSE LET pipeline == [cls |-> "StableDiffusionControlNetPipeline",
                                   obj |-> n]
                  IN  [base EXCEPT !.exc = run_pipeline(run),
                                   !.pipelines = Put(pipelines, key, pipeline),
                                   !.next = n + 1,
                                   !.reached = TRUE,
                                   !.ret = pipeline,
                                   !.invoked = @ \cup {"pipelines"},
                                   !.loaded = @ \cup {"pipelines"}]
        ELSE [base EXCEPT !.exc = run_pipeline(run),
                          !.reached = TRUE,
                          !.ret = pipelines[key]]

---------------------------------------------------------------------------
(* State after import of main.py: empty caches, no request answered *)

NoRequest ==
    [endpoint |-> "none", image |-> "none", type |-> <<>>, model_id |-> <<>>,
     status |-> 0, exc |-> NoException, ret |-> None, invoked |-> {},
     body |-> <<>>]

Threads == 1..MaxThreads

Idle == [pc |-> "idle", model_id |-> <<>>, pipeline |-> None]

Init ==
    /\ pipeline_cache = <<>>
    /\ models = <<>>
    /\ pipelines = <<>>
    /\ preprocessors = <<>>
    /\ running = TRUE
    /\ nextObj = 1
    /\ handled = 0
    /\ last = NoRequest
    /\ loads = [pipeline_cache |-> <<>>, models |-> <<>>, pipelines |-> <<>>]
    /\ failed = [pipeline_cache |-> {}, models |-> {}, pipelines |-> {}]
    /\ lookups = {}
    /\ inflight = [t \in Threads |-> Idle]

\* the server answers requests between startup and shutdown
Serving(limit) == running /\ handled < limit

---------------------------------------------------------------------------
(* Route handlers of main.py, one request handled from start to response *)

\* GET /health
health ==
    /\ Serving(MaxRequests)
    /\ handled' = handled + 1
    /\ last' = [NoRequest EXCEPT !.endpoint = "health", !.status = 200]
    /\ UNCHANGED <<caches, running, nextObj, loads, failed, lookups, inflight>>

\* GET /controlnet/types
get_controlnet_types ==
    /\ Serving(MaxRequests)
    /\ handled' = handled + 1
    /\ last' = [NoRequest EXCEPT !.endpoint = "types", !.status = 200,
                                 !.body = get_available_types]
    /\ UNCHANGED <<caches, running, nextObj, loads, failed, lookups, inflight>>

\* POST /controlnet/preprocess
controlnet_preprocess(limit, b64, control_type, ext, det) ==
    /\ Serving(limit)
    /\ handled' = handled + 1
    /\ LET decoded == base64_to_image(b64)
           res == IF decoded # NoException
                  THEN [exc |-> decoded, map |-> preprocessors, next |-> nextObj]
                  ELSE preprocess(control_type, ext, det)
       IN  /\ preprocessors' = res.map
           /\ nextObj' = res.next
           /\ last' = [NoRequest EXCEPT !.endpoint = "preprocess",
                                        !.image = b64,
                                        !.type = control_type,
                                        !.status = controlnet_status(res.exc),
                                        !.exc = res.exc]
    /\ UNCHANGED <<pipeline_cache, models, pipelines, running, loads, failed,
                   lookups, inflight>>

\* POST /controlnet/generate
controlnet_generate(limit, b64, control_type, base_model, extModel, extPipe, run) ==
    /\ Serving(limit)
    /\ handled' = handled + 1
    /\ LET decoded == base64_to_image(b64)
           gen == generate(control_type, base_model, extModel, extPipe, run)
           res == IF decoded # NoException
                  THEN [exc |-> decoded, models |-> models,
                        pipelines |-> pipelines, next |-> nextObj,
                        reached |-> FALSE, key |-> <<>>, ret |-> None,
                        invoked |-> {}, loaded |-> {}]
                  ELSE gen
           l1 == IF "models" \in res.loaded
                 THEN [loads EXCEPT !.models = Bump(@, control_type)]
                 ELSE loads
           l2 == IF "pipelines" \in res.loaded
                 THEN [l1 EXCEPT !.pipelines = Bump(@, <<base_model, control_type>>)]
                 ELSE l1
       IN  /\ models' = res.models
           /\ pipelines' = res.pipelines
           /\ nextObj' = res.next
           /\ loads' = l2
           /\ failed' = [failed EXCEPT
                 !.models = IF "models" \in res.invoked \ res.loaded
                            THEN @ \cup {control_type} ELSE @,
                 !.pipelines = IF "pipelines" \in res.invoked \ res.loaded
                               THEN @ \cup {<<base_model, control_type>>}
                               ELSE @]
           /\ lookups' = IF res.reached
                         THEN lookups \cup {[base |-> base_model,
                                             type |-> control_type,
                                             key |-> res.key,
                                             ret |-> res.ret]}
                         ELSE lookups
           /\ last' = [NoRequest EXCEPT !.endpoint = "generate",
                                        !.image = b64,
                                        !.type = control_type,
                                        !.model_id = base_model,
                                        !.status = controlnet_status(res.exc),
                                        !.exc = res.exc,
                                        !.ret = res.ret,
                                        !.invoked = res.invoked]
    /\ UNCHANGED <<pipeline_cache, preprocessors, running, inflight>>

\* POST /text-to-image
text_to_image(limit, model_id, ext, run) ==
    /\ Serving(limit)
    /\ handled' = handled + 1
    /\ LET got == load_pipeline(model_id, ext)
           exc == IF got.exc # NoException THEN got.exc ELSE run_pipeline(run)
       IN  /\ pipeline_cache' = got.cache
           /\ nextObj' = IF got.loaded THEN nextObj + 1 ELSE nextObj
           /\ loads' = IF got.loaded
                       THEN [loads EXCEPT !.pipeline_cache = Bump(@, model_id)]
                       ELSE loads
           /\ failed' = IF got.invoked /\ ~got.loaded
                        THEN [failed EXCEPT !.pipeline_cache = @ \cup {model_id}]
                        ELSE failed
           /\ last' = [NoRequest EXCEPT !.endpoint = "text-to-image",
                                        !.model_id = model_id,
                                        !.status = text_to_image_status(exc),
                                        !.exc = exc,
                                        !.ret = got.ret,
                                        !.invoked = IF got.invoked
                                                    THEN {"pipeline_cache"}
                                                    ELSE {}]
    /\ UNCHANGED <<models, pipelines, preprocessors, running, lookups, inflight>>

\* lifespan, the code after yield
lifespan_shutdown ==
    /\ running
    /\ \A t \in Threads : inflight[t].pc = "idle"
    /\ running' = FALSE
    /\ pipeline_cache' = <<>>
    /\ UNCHANGED <<models, pipelines, preprocessors, nextObj, handled, last,
                   loads, failed, lookups, inflight>>

Next ==
    \/ health
    \/ get_controlnet_types
    \/ \E b64 \in Base64Inputs, control_type \in RequestTypes,
          ext \in LoadOutcomes, det \in DetectOutcomes :
          controlnet_preprocess(MaxRequests, b64, control_type, ext, det)
    \/ \E b64 \in Base64Inputs, control_type \in RequestTypes,
          base_model \in BaseModelIds, extModel \in LoadOutcomes,
          extPipe \in LoadOutcomes, run \in RunOutcomes :
          controlnet_generate(MaxRequests, b64, control_type, base_model,
                              extModel, extPipe, run)
    \/ \E model_id \in TextModelIds, ext \in LoadOutcomes, run \in RunOutcomes :
          text_to_image(MaxRequests, model_id, ext, run)
    \/ lifespan_shutdown

\* requests handled one after another, as the event loop runs the handlers
Spec == Init /\ [][Next]_vars

---------------------------------------------------------------------------
(* load_pipeline called from several threads at once: every thread runs    *)
(* text_to_image, and the threads interleave at the calls into the library *)

Busy == {t \in Threads : inflight[t].pc # "idle"}

\* a thread enters text_to_image with a request for model_id
tti_begin(t, model_id) ==
    /\ running
    /\ handled + Cardinality(Busy) < MaxRequests
    /\ inflight[t].pc = "idle"
    /\ inflight' = [inflight EXCEPT ![t] = [pc |-> "check",
                                            model_id |-> model_id,
                                            pipeline |-> None]]
    /\ UNCHANGED <<caches, running, nextObj, handled, last, loads, failed, lookups>>

\* load_pipeline lines 76-77: the identifier is cached
load_pipeline_hit(t) ==
    /\ inflight[t].pc = "check"
    /\ pipeline_cached(inflight[t].model_id)
    /\ inflight' = [inflight EXCEPT ![t].pc = "run",
                        ![t].pipeline = pipeline_cache[inflight[t].model_id]]
    /\ UNCHANGED <<caches, running, nextObj, handled, last, loads, failed, lookups>>

\* load_pipeline_miss made to wait while another thread loads the identifier
load_pipeline_miss_locked(t) ==
    /\ inflight[t].pc = "check"
    /\ inflight[t].model_id \notin DOMAIN pipeline_cache
    /\ \A u \in Threads \ {t} :
          ~(inflight[u].pc = "load" /\ inflight[u].model_id = inflight[t].model_id)
    /\ inflight' = [inflight EXCEPT ![t].pc = "load"]
    /\ UNCHANGED <<caches, running, nextObj, handled, last, loads, failed, lookups>>

\* load_pipeline lines 76-99: the identifier is absent, from_pretrained is called
load_pipeline_miss(t) ==
    /\ inflight[t].pc = "check"
    /\ ~pipeline_cached(inflight[t].model_id)
    /\ inflight' = [inflight EXCEPT ![t].pc = "load"]
    /\ UNCHANGED <<caches, running, nextObj, handled, last, loads, failed, lookups>>

\* from_pretrained raises: text_to_image answers 500
load_pipeline_raise(t) ==
    /\ inflight[t].pc = "load"
    /\ inflight' = [inflight EXCEPT ![t] = Idle]
    /\ handled' = handled + 1
    /\ last' = [NoRequest EXCEPT
                  !.endpoint = "text-to-image",
                  !.model_id = inflight[t].model_id,
                  !.status = text_to_image_status(Raise("Exception", "from_pretrained")),
                  !.exc = Raise("Exception", "from_pretrained"),
                  !.invoked = {"pipeline_cache"}]
    /\ failed' = [failed EXCEPT !.pipeline_cache = @ \cup {inflight[t].model_id}]
    /\ UNCHANGED <<caches, running, nextObj, loads, lookups>>

\* from_pretrained returns: load_pipeline lines 101-105
load_pipeline_store(t) ==
    /\ inflight[t].pc = "load"
    /\ LET pipeline == [cls |-> pipeline_family(inflight[t].model_id),
                        obj |-> nextObj]
       IN  /\ pipeline_cache' = Put(pipeline_cache, inflight[t].model_id, pipeline)
           /\ inflight' = [inflight EXCEPT ![t].pc = "run",
                                           ![t].pipeline = pipeline]
    /\ nextObj' = nextObj + 1
    /\ loads' = [loads EXCEPT !.pipeline_cache = Bump(@, inflight[t].model_id)]
    /\ UNCHANGED <<models, pipelines, preprocessors, running, handled, last,
                   failed, lookups>>

\* text_to_image lines 275-317: the pipeline call and the response
tti_respond(t, run) ==
    /\ inflight[t].pc = "run"
    /\ inflight' = [inflight EXCEPT ![t] = Idle]
    /\ handled' = handled + 1
    /\ last' = [NoRequest EXCEPT
                  !.endpoint = "text-to-image",
                  !.model_id = inflight[t].model_id,
                  !.status = text_to_image_status(run_pipeline(run)),
                  !.exc = run_pipeline(run),
                  !.ret = inflight[t].pipeline]
    /\ UNCHANGED <<caches, running, nextObj, loads, failed, lookups>>

NextConc ==
    \/ \E t \in Threads, model_id \in TextModelIds : tti_begin(t, model_id)
    \/ \E t \in Threads : load_pipeline_hit(t)
    \/ \E t \in Threads : load_pipeline_miss(t)
    \/ \E t \in Threads : load_pipeline_raise(t)
    \/ \E t \in Threads : load_pipeline_store(t)
    \/ \E t \in Threads, run \in RunOutcomes : tti_respond(t, run)
    \/ lifespan_shutdown

SpecConc == Init /\ [][NextConc]_vars

---------------------------------------------------------------------------
(* load_pipeline applied to composed model identifiers *)

Flux_mixed == <<"F","l","u","x">>

SD3_upper == <<"S","D","3">>

Xl_mixed == <<"X","l">>

FamilyFragments == {Flux_mixed, SD3_upper, stable_diffusion_3, Xl_mixed, sd}

FamilyModelIds == Composed(FamilyFragments, MaxParts)

NextFamily ==
    \E model_id \in FamilyModelIds, ext \in LoadOutcomes, run \in RunOutcomes :
        text_to_image(MaxFamilyCalls, model_id, ext, run)

SpecFamily == Init /\ [][NextFamily]_vars

---------------------------------------------------------------------------
(* generate applied to composed base models and to control types with ':' *)

KeyFragments == {<<"a">>, <<":">>}

KeyBaseModels == Composed(KeyFragments, MaxParts)

colon_canny == <<":">> \o canny

colon_hed == <<":">> \o hed

KeyTypes == {canny, hed, colon_canny, colon_hed}

NextKey ==
    \E control_type \in KeyTypes, base_model \in KeyBaseModels,
       extModel \in LoadOutcomes, extPipe \in LoadOutcomes :
        controlnet_generate(MaxKeyCalls, "png", control_type, base_model,
                            extModel, extPipe, "image")

SpecKey == Init /\ [][NextKey]_vars

---------------------------------------------------------------------------
(* Properties *)

Answered(endpoint) == handled' = handled + 1 /\ last'.endpoint = endpoint

LoadedAtMostOnce ==
    /\ \A k \in DOMAIN loads.pipeline_cache : loads.pipeline_cache[k] <= 1
    /\ \A k \in DOMAIN loads.models : loads.models[k] <= 1
    /\ \A k \in DOMAIN loads.pipelines : loads.pipelines[k] <= 1

HitUsesCache ==
    /\ Answered("text-to-image") /\ last'.model_id \in DOMAIN pipeline_cache
         => /\ "pipeline_cache" \notin last'.invoked
            /\ last'.ret = pipeline_cache[last'.model_id]
    /\ Answered("generate") /\ last'.type \in DOMAIN models
         => "models" \notin last'.invoked
    /\ Answered("generate")
       /\ pipeline_key(last'.model_id, last'.type) \in DOMAIN pipelines
         => /\ "pipelines" \notin last'.invoked
            /\ last'.image = "png"
                 => last'.ret = pipelines[pipeline_key(last'.model_id, last'.type)]

\* C1: with requests handled one after another, no key of the pipeline cache,
\* of the ControlNet models or of the ControlNet pipelines is loaded
\* successfully more than once, and a request whose key is already cached
\* does not call the loader and gets the cached instance.
C1_LoadedOncePerKey == []LoadedAtMostOnce /\ [][HitUsesCache]_vars

\* a generate request answered from both caches, each loaded exactly once
C1_Witness ==
    /\ last.endpoint = "generate"
    /\ last.status = 200
    /\ last.invoked = {}
    /\ Count(loads.models, last.type) = 1
    /\ Count(loads.pipelines, <<last.model_id, last.type>>) = 1
    /\ last.ret = pipelines[pipeline_key(last.model_id, last.type)]

ControlRequest == last.endpoint \in {"preprocess", "generate"}

\* C2 as stated: every preprocess or generate request with an unknown
\* control type is answered 400.
C2_UnknownTypeAlways400 ==
    ControlRequest /\ last.type \notin ControlType => last.status = 400

\* C2 amended: a preprocess or generate request with an unknown control type
\* is answered 400 in every cache state, unless Image.open rejects its image.
C2_UnknownTypeIs400 ==
    ControlRequest /\ last.type \notin ControlType /\ last.image # "not_image"
        => last.status = 400

\* an unknown type answered 400 while the caches hold entries
C2_Witness ==
    /\ last.endpoint = "generate"
    /\ last.type = Canny_capital
    /\ last.image = "png"
    /\ last.status = 400
    /\ DOMAIN models # {}
    /\ DOMAIN pipelines # {}

\* C3: in preprocess and generate every failure other than an unknown
\* control type is answered 500, never 400: a request whose control type is
\* one of the five and that fails is answered 500.
C3_OtherFailuresAre500 ==
    ControlRequest /\ last.type \in ControlType /\ last.exc # NoException
        => last.status = 500

EntriesKept(cache, cacheAfter) ==
    \A k \in DOMAIN cache : k \in DOMAIN cacheAfter /\ cacheAfter[k] = cache[k]

\* C4: while the server runs, a step never removes or replaces an entry of
\* the pipeline cache, the ControlNet models, the ControlNet pipelines or the
\* preprocessors.
C4_EntriesNeverEvicted ==
    [][running' => /\ EntriesKept(pipeline_cache, pipeline_cache')
                   /\ EntriesKept(models, models')
                   /\ EntriesKept(pipelines, pipelines')
                   /\ EntriesKept(preprocessors, preprocessors')]_vars

\* a failed request answered while three of the caches hold entries
C4_Witness ==
    /\ running
    /\ handled = 2
    /\ last.status = 500
    /\ DOMAIN models # {}
    /\ DOMAIN pipelines # {}
    /\ last.endpoint = "text-to-image"

\* C5: after the shutdown step all four mappings are empty.
C5_ShutdownDropsAll ==
    ~running => /\ pipeline_cache = <<>>
                /\ pipelines = <<>>
                /\ models = <<>>
                /\ preprocessors = <<>>

C7_FamilyByPrecedence ==
    \A m \in DOMAIN pipeline_cache :
        LET id == Lower(m)
            cls == pipeline_cache[m].cls
            isFlux == Contains(id, flux)
            isSd3 == Contains(id, sd3) \/ Contains(id, stable_diffusion_3)
            isXl == Contains(id, xl)
        IN  /\ cls = "FluxPipeline" <=> isFlux
            /\ cls = "StableDiffusion3Pipeline" <=> ~isFlux /\ isSd3
            /\ cls = "StableDiffusionXLPipeline" <=> ~isFlux /\ ~isSd3 /\ isXl
            /\ cls = "StableDiffusionPipeline" <=> ~isFlux /\ ~isSd3 /\ ~isXl

\* a mixed-case identifier naming SD3 and SDXL was loaded as SD3
C7_Witness ==
    \E m \in DOMAIN pipeline_cache :
        /\ m # Lower(m)
        /\ Contains(Lower(m), sd3)
        /\ Contains(Lower(m), xl)
        /\ pipeline_cache[m].cls = "StableDiffusion3Pipeline"

\* C8: GET /controlnet/types answers canny, depth, hed, openpose, scribble in
\* that order whatever the caches hold, and changes no cache.
C8_TypesFixed ==
    /\ [](last.endpoint = "types"
            => /\ last.status = 200
               /\ last.body = <<canny, depth, hed, openpose, scribble>>)
    /\ [][Answered("types") => caches' = caches]_vars

\* the types were listed after a request that loaded a model
C8_Witness ==
    /\ last.endpoint = "types"
    /\ handled = 2
    /\ DOMAIN models # {}
    /\ failed.pipelines # {}

\* C9: two generate calls that reach the pipeline lookup have the same key,
\* and use the same pipeline, exactly when base model and control type agree.
C9_KeyPerPair ==
    \A a, b \in lookups :
        /\ a.key = b.key <=> (a.base = b.base /\ a.type = b.type)
        /\ a.ret # None /\ b.ret # None
             => (a.ret = b.ret <=> (a.base = b.base /\ a.type = b.type))

\* two base models, one of them with ':' in it, got different pipelines
C9_Witness ==
    \E a, b \in lookups :
        /\ Contains(a.base, <<":">>)
        /\ a.base # b.base
        /\ a.type = b.type
        /\ a.ret # None /\ b.ret # None
        /\ a.ret # b.ret
        /\ a.key \in DOMAIN pipelines /\ b.key \in DOMAIN pipelines

FailureNotCached ==
    /\ \A k \in DOMAIN pipeline_cache : Count(loads.pipeline_cache, k) >= 1
    /\ \A k \in DOMAIN models : Count(loads.models, k) >= 1
    /\ \A k \in DOMAIN pipelines :
          \E pair \in DOMAIN loads.pipelines : pipeline_key(pair[1], pair[2]) = k
    /\ last.exc.origin = "from_pretrained"
          => last.model_id \notin DOMAIN pipeline_cache
    /\ last.exc.origin = "controlnet_load" => last.type \notin DOMAIN models
    /\ last.exc.origin = "pipeline_load"
          => pipeline_key(last.model_id, last.type) \notin DOMAIN pipelines

LoadRetried ==
    /\ Answered("text-to-image") /\ last'.model_id \notin DOMAIN pipeline_cache
         => "pipeline_cache" \in last'.invoked
    /\ Answered("generate") /\ last'.image = "png"
       /\ last'.type \in ControlType \ DOMAIN models
         => "models" \in last'.invoked
    /\ Answered("generate") /\ last'.image = "png"
       /\ last'.type \in DOMAIN models'
       /\ pipeline_key(last'.model_id, last'.type) \notin DOMAIN pipelines
         => "pipelines" \in last'.invoked

\* C10: a key is in a cache only after a load for it succeeded; a load that
\* raises leaves its key absent, and the next request for an absent key calls
\* the loader again.
C10_FailedLoadNotCached == []FailureNotCached /\ [][LoadRetried]_vars

\* a pipeline whose first load raised was loaded by the next request
C10_Witness ==
    /\ last.endpoint = "generate"
    /\ <<last.model_id, last.type>> \in failed.pipelines
    /\ "pipelines" \in last.invoked
    /\ last.status = 200
    /\ pipeline_key(last.model_id, last.type) \in DOMAIN pipelines

=============================================================================
